---- MODULE Spec2Model ----
(***************************************************************************)
(* State-machine model of verl/trainer/eval_on_data.py: the reconstruction *)
(* of a consolidated state dict from rank-sharded checkpoint files         *)
(* (load_sharded_model) and the evaluation driver (main).                  *)
(***************************************************************************)
EXTENDS Integers, Sequences, FiniteSets, TLC

\* ------------------------------------------------------------------ bounds
\* Largest world size whose shard files the checkpoint directory may hold.
MaxWorld == 3
\* Largest number of files of the checkpoint directory.
MaxFiles == 4
\* Largest number of examples of the validation dataset.
MaxExamples == 3
\* Largest number of examples the padding of a batch may add.
MaxPad == 2

\* ------------------------------------------------------------ text and names
\* A file name is a text: a sequence of characters, each a string.  A string
\* "U+0663" stands for the one character of that code point.
\* The ASCII digits, in the order of their values.
Digits == <<"0", "1", "2", "3", "4", "5", "6", "7", "8", "9">>

\* The decimal digits re's \d matches and int() reads: the characters of
\* category Nd, one row per script, each row in the order of the values 0..9.
DecimalDigits ==
    <<Digits,
       <<"U+0660", "U+0661", "U+0662", "U+0663", "U+0664",
         "U+0665", "U+0666", "U+0667", "U+0668", "U+0669">>,
       <<"U+06F0", "U+06F1", "U+06F2", "U+06F3", "U+06F4",
         "U+06F5", "U+06F6", "U+06F7", "U+06F8", "U+06F9">>,
       <<"U+07C0", "U+07C1", "U+07C2", "U+07C3", "U+07C4",
         "U+07C5", "U+07C6", "U+07C7", "U+07C8", "U+07C9">>,
       <<"U+0966", "U+0967", "U+0968", "U+0969", "U+096A",
         "U+096B", "U+096C", "U+096D", "U+096E", "U+096F">>,
       <<"U+09E6", "U+09E7", "U+09E8", "U+09E9", "U+09EA",
         "U+09EB", "U+09EC", "U+09ED", "U+09EE", "U+09EF">>,
       <<"U+0A66", "U+0A67", "U+0A68", "U+0A69", "U+0A6A",
         "U+0A6B", "U+0A6C", "U+0A6D", "U+0A6E", "U+0A6F">>,
       <<"U+0AE6", "U+0AE7", "U+0AE8", "U+0AE9", "U+0AEA",
         "U+0AEB", "U+0AEC", "U+0AED", "U+0AEE", "U+0AEF">>,
       <<"U+0B66", "U+0B67", "U+0B68", "U+0B69", "U+0B6A",
         "U+0B6B", "U+0B6C", "U+0B6D", "U+0B6E", "U+0B6F">>,
       <<"U+0BE6", "U+0BE7", "U+0BE8", "U+0BE9", "U+0BEA",
         "U+0BEB", "U+0BEC", "U+0BED", "U+0BEE", "U+0BEF">>,
       <<"U+0C66", "U+0C67", "U+0C68", "U+0C69", "U+0C6A",
         "U+0C6B", "U+0C6C", "U+0C6D", "U+0C6E", "U+0C6F">>,
       <<"U+0CE6", "U+0CE7", "U+0CE8", "U+0CE9", "U+0CEA",
         "U+0CEB", "U+0CEC", "U+0CED", "U+0CEE", "U+0CEF">>,
       <<"U+0D66", "U+0D67", "U+0D68", "U+0D69", "U+0D6A",
         "U+0D6B", "U+0D6C", "U+0D6D", "U+0D6E", "U+0D6F">>,
       <<"U+0DE6", "U+0DE7", "U+0DE8", "U+0DE9", "U+0DEA",
         "U+0DEB", "U+0DEC", "U+0DED", "U+0DEE", "U+0DEF">>,
       <<"U+0E50", "U+0E51", "U+0E52", "U+0E53", "U+0E54",
         "U+0E55", "U+0E56", "U+0E57", "U+0E58", "U+0E59">>,
       <<"U+0ED0", "U+0ED1", "U+0ED2", "U+0ED3", "U+0ED4",
         "U+0ED5", "U+0ED6", "U+0ED7", "U+0ED8", "U+0ED9">>,
       <<"U+0F20", "U+0F21", "U+0F22", "U+0F23", "U+0F24",
         "U+0F25", "U+0F26", "U+0F27", "U+0F28", "U+0F29">>,
       <<"U+1040", "U+1041", "U+1042", "U+1043", "U+1044",
         "U+1045", "U+1046", "U+1047", "U+1048", "U+1049">>,
       <<"U+1090", "U+1091", "U+1092", "U+1093", "U+1094",
         "U+1095", "U+1096", "U+1097", "U+1098", "U+1099">>,
       <<"U+17E0", "U+17E1", "U+17E2", "U+17E3", "U+17E4",
         "U+17E5", "U+17E6", "U+17E7", "U+17E8", "U+17E9">>,
       <<"U+1810", "U+1811", "U+1812", "U+1813", "U+1814",
         "U+1815", "U+1816", "U+1817", "U+1818", "U+1819">>,
       <<"U+1946", "U+1947", "U+1948", "U+1949", "U+194A",
         "U+194B", "U+194C", "U+194D", "U+194E", "U+194F">>,
       <<"U+19D0", "U+19D1", "U+19D2", "U+19D3", "U+19D4",
         "U+19D5", "U+19D6", "U+19D7", "U+19D8", "U+19D9">>,
       <<"U+1A80", "U+1A81", "U+1A82", "U+1A83", "U+1A84",
         "U+1A85", "U+1A86", "U+1A87", "U+1A88", "U+1A89">>,
       <<"U+1A90", "U+1A91", "U+1A92", "U+1A93", "U+1A94",
         "U+1A95", "U+1A96", "U+1A97", "U+1A98", "U+1A99">>,
       <<"U+1B50", "U+1B51", "U+1B52", "U+1B53", "U+1B54",
         "U+1B55", "U+1B56", "U+1B57", "U+1B58", "U+1B59">>,
       <<"U+1BB0", "U+1BB1", "U+1BB2", "U+1BB3", "U+1BB4",
         "U+1BB5", "U+1BB6", "U+1BB7", "U+1BB8", "U+1BB9">>,
       <<"U+1C40", "U+1C41", "U+1C42", "U+1C43", "U+1C44",
         "U+1C45", "U+1C46", "U+1C47", "U+1C48", "U+1C49">>,
       <<"U+1C50", "U+1C51", "U+1C52", "U+1C53", "U+1C54",
         "U+1C55", "U+1C56", "U+1C57", "U+1C58", "U+1C59">>,
       <<"U+A620", "U+A621", "U+A622", "U+A623", "U+A624",
         "U+A625", "U+A626", "U+A627", "U+A628", "U+A629">>,
       <<"U+A8D0", "U+A8D1", "U+A8D2", "U+A8D3", "U+A8D4",
         "U+A8D5", "U+A8D6", "U+A8D7", "U+A8D8", "U+A8D9">>,
       <<"U+A900", "U+A901", "U+A902", "U+A903", "U+A904",
         "U+A905", "U+A906", "U+A907", "U+A908", "U+A909">>,
       <<"U+A9D0", "U+A9D1", "U+A9D2", "U+A9D3", "U+A9D4",
         "U+A9D5", "U+A9D6", "U+A9D7", "U+A9D8", "U+A9D9">>,
       <<"U+A9F0", "U+A9F1", "U+A9F2", "U+A9F3", "U+A9F4",
         "U+A9F5", "U+A9F6", "U+A9F7", "U+A9F8", "U+A9F9">>,
       <<"U+AA50", "U+AA51", "U+AA52", "U+AA53", "U+AA54",
         "U+AA55", "U+AA56", "U+AA57", "U+AA58", "U+AA59">>,
       <<"U+ABF0", "U+ABF1", "U+ABF2", "U+ABF3", "U+ABF4",
         "U+ABF5", "U+ABF6", "U+ABF7", "U+ABF8", "U+ABF9">>,
       <<"U+FF10", "U+FF11", "U+FF12", "U+FF13", "U+FF14",
         "U+FF15", "U+FF16", "U+FF17", "U+FF18", "U+FF19">>,
       <<"U+104A0", "U+104A1", "U+104A2", "U+104A3", "U+104A4",
         "U+104A5", "U+104A6", "U+104A7", "U+104A8", "U+104A9">>,
       <<"U+10D30", "U+10D31", "U+10D32", "U+10D33", "U+10D34",
         "U+10D35", "U+10D36", "U+10D37", "U+10D38", "U+10D39">>,
       <<"U+11066", "U+11067", "U+11068", "U+11069", "U+1106A",
         "U+1106B", "U+1106C", "U+1106D", "U+1106E", "U+1106F">>,
       <<"U+110F0", "U+110F1", "U+110F2", "U+110F3", "U+110F4",
         "U+110F5", "U+110F6", "U+110F7", "U+110F8", "U+110F9">>,
       <<"U+11136", "U+11137", "U+11138", "U+11139", "U+1113A",
         "U+1113B", "U+1113C", "U+1113D", "U+1113E", "U+1113F">>,
       <<"U+111D0", "U+111D1", "U+111D2", "U+111D3", "U+111D4",
         "U+111D5", "U+111D6", "U+111D7", "U+111D8", "U+111D9">>,
       <<"U+112F0", "U+112F1", "U+112F2", "U+112F3", "U+112F4",
         "U+112F5", "U+112F6", "U+112F7", "U+112F8", "U+112F9">>,
       <<"U+11450", "U+11451", "U+11452", "U+11453", "U+11454",
         "U+11455", "U+11456", "U+11457", "U+11458", "U+11459">>,
       <<"U+114D0", "U+114D1", "U+114D2", "U+114D3", "U+114D4",
         "U+114D5", "U+114D6", "U+114D7", "U+114D8", "U+114D9">>,
       <<"U+11650", "U+11651", "U+11652", "U+11653", "U+11654",
         "U+11655", "U+11656", "U+11657", "U+11658", "U+11659">>,
       <<"U+116C0", "U+116C1", "U+116C2", "U+116C3", "U+116C4",
         "U+116C5", "U+116C6", "U+116C7", "U+116C8", "U+116C9">>,
       <<"U+11730", "U+11731", "U+11732", "U+11733", "U+11734",
         "U+11735", "U+11736", "U+11737", "U+11738", "U+11739">>,
       <<"U+118E0", "U+118E1", "U+118E2", "U+118E3", "U+118E4",
         "U+118E5", "U+118E6", "U+118E7", "U+118E8", "U+118E9">>,
       <<"U+11950", "U+11951", "U+11952", "U+11953", "U+11954",
         "U+11955", "U+11956", "U+11957", "U+11958", "U+11959">>,
       <<"U+11C50", "U+11C51", "U+11C52", "U+11C53", "U+11C54",
         "U+11C55", "U+11C56", "U+11C57", "U+11C58", "U+11C59">>,
       <<"U+11D50", "U+11D51", "U+11D52", "U+11D53", "U+11D54",
         "U+11D55", "U+11D56", "U+11D57", "U+11D58", "U+11D59">>,
       <<"U+11DA0", "U+11DA1", "U+11DA2", "U+11DA3", "U+11DA4",
         "U+11DA5", "U+11DA6", "U+11DA7", "U+11DA8", "U+11DA9">>,
       <<"U+16A60", "U+16A61", "U+16A62", "U+16A63", "U+16A64",
         "U+16A65", "U+16A66", "U+16A67", "U+16A68", "U+16A69">>,
       <<"U+16AC0", "U+16AC1", "U+16AC2", "U+16AC3", "U+16AC4",
         "U+16AC5", "U+16AC6", "U+16AC7", "U+16AC8", "U+16AC9">>,
       <<"U+16B50", "U+16B51", "U+16B52", "U+16B53", "U+16B54",
         "U+16B55", "U+16B56", "U+16B57", "U+16B58", "U+16B59">>,
       <<"U+1D7CE", "U+1D7CF", "U+1D7D0", "U+1D7D1", "U+1D7D2",
         "U+1D7D3", "U+1D7D4", "U+1D7D5", "U+1D7D6", "U+1D7D7">>,
       <<"U+1D7D8", "U+1D7D9", "U+1D7DA", "U+1D7DB", "U+1D7DC",
         "U+1D7DD", "U+1D7DE", "U+1D7DF", "U+1D7E0", "U+1D7E1">>,
       <<"U+1D7E2", "U+1D7E3", "U+1D7E4", "U+1D7E5", "U+1D7E6",
         "U+1D7E7", "U+1D7E8", "U+1D7E9", "U+1D7EA", "U+1D7EB">>,
       <<"U+1D7EC", "U+1D7ED", "U+1D7EE", "U+1D7EF", "U+1D7F0",
         "U+1D7F1", "U+1D7F2", "U+1D7F3", "U+1D7F4", "U+1D7F5">>,
       <<"U+1D7F6", "U+1D7F7", "U+1D7F8", "U+1D7F9", "U+1D7FA",
         "U+1D7FB", "U+1D7FC", "U+1D7FD", "U+1D7FE", "U+1D7FF">>,
       <<"U+1E140", "U+1E141", "U+1E142", "U+1E143", "U+1E144",
         "U+1E145", "U+1E146", "U+1E147", "U+1E148", "U+1E149">>,
       <<"U+1E2F0", "U+1E2F1", "U+1E2F2", "U+1E2F3", "U+1E2F4",
         "U+1E2F5", "U+1E2F6", "U+1E2F7", "U+1E2F8", "U+1E2F9">>,
       <<"U+1E950", "U+1E951", "U+1E952", "U+1E953", "U+1E954",
         "U+1E955", "U+1E956", "U+1E957", "U+1E958", "U+1E959">>,
       <<"U+1FBF0", "U+1FBF1", "U+1FBF2", "U+1FBF3", "U+1FBF4",
         "U+1FBF5", "U+1FBF6", "U+1FBF7", "U+1FBF8", "U+1FBF9">> >>

DigitSet ==
    { DecimalDigits[s][i] : s \in 1..Len(DecimalDigits), i \in 1..10 }

IsDigit(c) == c \in DigitSet

DigitVal(c) ==
    (CHOOSE i \in 1..10 :
        \E s \in 1..Len(DecimalDigits) : DecimalDigits[s][i] = c) - 1

\* The rows of the Devanagari and of the fullwidth digits.
DevanagariDigits ==
    DecimalDigits[CHOOSE s \in 1..Len(DecimalDigits) :
                     DecimalDigits[s][1] = "U+0966"]

FullwidthDigits ==
    DecimalDigits[CHOOSE s \in 1..Len(DecimalDigits) :
                     DecimalDigits[s][1] = "U+FF10"]

\* int(text) of a run of digits.
RECURSIVE ParseInt(_)
ParseInt(text) ==
    IF Len(text) = 0 THEN 0
    ELSE 10 * ParseInt(SubSeq(text, 1, Len(text) - 1)) + DigitVal(text[Len(text)])

\* The text an f-string gives an int: decimal, ASCII, no leading zeros.
RECURSIVE FormatInt(_)
FormatInt(n) ==
    IF n < 10 THEN <<Digits[n + 1]>>
    ELSE Append(FormatInt(n \div 10), Digits[(n % 10) + 1])

ModelStem ==
    <<"m", "o", "d", "e", "l", "_", "w", "o", "r", "l", "d", "_",
      "s", "i", "z", "e", "_">>

OptimStem ==
    <<"o", "p", "t", "i", "m", "_", "w", "o", "r", "l", "d", "_",
      "s", "i", "z", "e", "_">>

RankSep == <<"_", "r", "a", "n", "k", "_">>

Ext == <<".", "p", "t">>

\* The name <stem><ws>_rank_<rank>.pt
FileName(stem, ws, rank) == stem \o ws \o RankSep \o rank \o Ext

\* Whether the text pat stands in name from position i on.
HasAt(name, pat, i) ==
    /\ i >= 1
    /\ i + Len(pat) - 1 <= Len(name)
    /\ SubSeq(name, i, i + Len(pat) - 1) = pat

\* The length of the run of digits that starts at position i of name.
RECURSIVE DigitRun(_, _)
DigitRun(name, i) ==
    IF i <= Len(name) /\ IsDigit(name[i]) THEN 1 + DigitRun(name, i + 1) ELSE 0

\* checkpoint_dir.glob("model_world_size_*_rank_*.pt"): * matches any text.
GlobMatches(name) ==
    /\ HasAt(name, ModelStem, 1)
    /\ HasAt(name, Ext, Len(name) - Len(Ext) + 1)
    /\ \E i \in (Len(ModelStem) + 1)..(Len(name) - Len(Ext) - Len(RankSep) + 1) :
          HasAt(name, RankSep, i)

\* pattern.match(file.name) with r"model_world_size_(\d+)_rank_(\d+)\.pt":
\* the match starts at the start of the name and need not reach its end.
\* Neither "_" nor "." is a digit, so each group is a whole run of digits.
PatternMatches(name) ==
    LET a == Len(ModelStem) + 1
        n1 == DigitRun(name, a)
        b == a + n1 + Len(RankSep)
        n2 == DigitRun(name, b)
    IN  /\ HasAt(name, ModelStem, 1)
        /\ n1 >= 1
        /\ HasAt(name, RankSep, a + n1)
        /\ n2 >= 1
        /\ HasAt(name, Ext, b + n2)

\* match.group(1)
MatchGroup1(name) ==
    SubSeq(name, Len(ModelStem) + 1,
           Len(ModelStem) + DigitRun(name, Len(ModelStem) + 1))

\* f"model_world_size_{world_size}_rank_{rank}.pt"
ShardPath(world_size, rank) ==
    FileName(ModelStem, FormatInt(world_size), FormatInt(rank))

\* ------------------------------------------------------------------ tensors
\* A value of a shard dict.  A tensor of shape (Len(rows),) + tail is
\* [kind |-> "Tensor"]; rows holds one entry per index of dimension 0.  A
\* 0-dimensional tensor is "Scalar", a distributed-tensor handle (it has
\* to_local) is "DTensor", and anything that is no tensor is "Object".
Value(kind, rows, tail) == [kind |-> kind, rows |-> rows, tail |-> tail]

\* value.to_local() when hasattr(value, "to_local")
ToLocal(value) ==
    IF value.kind = "DTensor" THEN [value EXCEPT !.kind = "Tensor"] ELSE value

\* torch.cat skips 1-D tensors of shape (0,).
IsLegacyEmpty(v) == v.kind = "Tensor" /\ v.rows = <<>> /\ v.tail = <<>>

Sized(values) == SelectSeq(values, LAMBDA v : ~IsLegacyEmpty(v))

\* torch.cat(values, dim=0) raises TypeError for a non-tensor and RuntimeError
\* for a 0-dimensional tensor or for shapes that differ outside dimension 0.
CatRaises(values) ==
    \/ Len(values) = 0
    \/ \E i \in 1..Len(values) : values[i].kind # "Tensor"
    \/ \E i, j \in 1..Len(Sized(values)) :
          Sized(values)[i].tail # Sized(values)[j].tail

RECURSIVE CatRows(_)
CatRows(values) ==
    IF Len(values) = 0 THEN <<>>
    ELSE values[1].rows \o CatRows(Tail(values))

\* The tensor torch.cat(values, dim=0) returns when it does not raise.
TorchCat(values) ==
    Value("Tensor", CatRows(values),
          IF Len(Sized(values)) = 0 THEN <<>> ELSE Sized(values)[1].tail)

\* ------------------------------------------------------------ shard contents
\* What torch.load may return for the shard of a rank: parameter "b" is a 1-D
\* chunk of the rank; parameter "w" is absent or one of seven values.
ChunkRows(rank, base) == [i \in 1..(1 + (rank % 2)) |-> base + 10 * rank + i]

WValues(rank) ==
    { Value("Tensor", ChunkRows(rank, 100), <<>>),
      Value("Tensor", ChunkRows(rank, 200), <<2>>),
      Value("Tensor", <<7, 8>>, <<>>),
      Value("Tensor", <<>>, <<>>),
      Value("Scalar", <<9>>, <<>>),
      Value("DTensor", ChunkRows(rank, 300), <<>>),
      Value("Object", <<>>, <<>>) }

BValue(rank) == Value("Tensor", ChunkRows(rank, 500), <<>>)

ShardDicts(rank) ==
    { [k \in {"b"} |-> BValue(rank)] }
    \cup { [k \in {"w", "b"} |-> IF k = "w" THEN w ELSE BValue(rank)] :
              w \in WValues(rank) }

\* ---------------------------------------------------------------- directories
\* The names a checkpoint directory may hold: the shards of world size
\* MaxWorld for ranks 0..MaxWorld (rank MaxWorld is beyond the world size), one
\* shard of another world size, one of world size 0, one whose world size is
\* written with a leading zero, one whose world size and rank are written with
\* non-ASCII digits of two scripts, one that goes on after ".pt", one the glob matches and the
\* pattern does not, and one of another stem.
LoadNames ==
    { ShardPath(MaxWorld, r) : r \in 0..MaxWorld }
    \cup { ShardPath(MaxWorld - 1, 0),
           ShardPath(0, 0),
           FileName(ModelStem, <<"0">> \o FormatInt(MaxWorld), <<"0">>),
           FileName(ModelStem, <<DevanagariDigits[MaxWorld + 1]>>,
                    <<FullwidthDigits[1]>>),
           FileName(ModelStem, FormatInt(MaxWorld), <<"0", ".", "p", "t", "X">>),
           FileName(ModelStem, <<"x">>, <<"0">>),
           FileName(OptimStem, FormatInt(MaxWorld), <<"0">>) }

LoadDirs == { d \in SUBSET LoadNames : Cardinality(d) <= MaxFiles }

\* The directories of a run of main.
MainNames == { ShardPath(1, 0), ShardPath(2, 0) }

\* ------------------------------------------------------------------- state
VARIABLES
    pc,            \* position of the control flow
    config,        \* the hydra configuration of main
    fs,            \* the files of the checkpoint directory
    world_size,    \* load_sharded_model: world_size
    rank,          \* load_sharded_model: the rank the loop is at
    state_dict,    \* load_sharded_model: state_dict, name -> list of values
    loaded,        \* the torch.load calls made so far: <<file, shard_dict>>
    consolidated,  \* load_sharded_model: consolidated_state_dict
    error,         \* the uncaught exception, "" while there is none
    actor_module,  \* "pretrained", or "checkpoint" after load_state_dict
    val_dataloader,     \* main: the batches of the loader, in its order
    idx,                \* main: the number of batches the loop has taken
    sample_inputs,      \* main: sample_inputs
    sample_outputs,     \* main: sample_outputs
    sample_scores,      \* main: sample_scores
    reward_tensor_lst,  \* main: reward_tensor_lst
    data_source_lst,    \* main: data_source_lst
    data_source_reward, \* main: data_source_reward
    metric_dict,        \* main: metric_dict
    printed             \* whether print(metric_dict) has run

loadVars == <<world_size, rank, state_dict, loaded, consolidated>>

evalVars == <<val_dataloader, idx, sample_inputs, sample_outputs, sample_scores,
              reward_tensor_lst, data_source_lst, data_source_reward,
              metric_dict, printed>>

vars == <<pc, config, fs, error, actor_module, loadVars, evalVars>>

NoConfig ==
    [fsdp_checkpoint_path |-> "None", batch_size |-> 1, shuffle |-> FALSE,
     drop_last |-> FALSE]

InitLoadVars ==
    /\ world_size = 0
    /\ rank = 0
    /\ state_dict = <<>>
    /\ loaded = <<>>
    /\ consolidated = <<>>

InitEvalVars ==
    /\ val_dataloader = <<>>
    /\ idx = 0
    /\ sample_inputs = <<>>
    /\ sample_outputs = <<>>
    /\ sample_scores = <<>>
    /\ reward_tensor_lst = <<>>
    /\ data_source_lst = <<>>
    /\ data_source_reward = <<>>
    /\ metric_dict = <<>>
    /\ printed = FALSE

\* ------------------------------------------------------- load_sharded_model
\* The orders in which glob may list a set of files.
RECURSIVE Listings(_)
Listings(files) ==
    IF files = {} THEN { <<>> }
    ELSE UNION { { <<f>> \o rest : rest \in Listings(files \ {f}) } : f \in files }

\* The loop over shard_files that fills world_sizes.
RECURSIVE WorldSizesFirstOnly(_)
WorldSizesFirstOnly(shard_files) ==
    IF Len(shard_files) = 0 THEN {}
    ELSE IF PatternMatches(shard_files[1])
         THEN { ParseInt(MatchGroup1(shard_files[1])) }
         ELSE WorldSizesFirstOnly(Tail(shard_files))

RECURSIVE WorldSizes(_)
WorldSizes(shard_files) ==
    IF Len(shard_files) = 0 THEN {}
    ELSE (IF PatternMatches(shard_files[1])
          THEN { ParseInt(MatchGroup1(shard_files[1])) } ELSE {})
         \cup WorldSizes(Tail(shard_files))

\* state_dict[key].append(value) for every item of a shard.
AppendShardPrepend(sd, shard_dict) ==
    [k \in (DOMAIN sd) \cup (DOMAIN shard_dict) |->
        (IF k \in DOMAIN shard_dict THEN <<ToLocal(shard_dict[k])>> ELSE <<>>)
        \o (IF k \in DOMAIN sd THEN sd[k] ELSE <<>>)]

AppendShard(sd, shard_dict) ==
    [k \in (DOMAIN sd) \cup (DOMAIN shard_dict) |->
        (IF k \in DOMAIN sd THEN sd[k] ELSE <<>>)
        \o (IF k \in DOMAIN shard_dict THEN <<ToLocal(shard_dict[k])>> ELSE <<>>)]

\* The try/except of the consolidation loop, for one key.
ConsolidateKeyLast(values) ==
    IF CatRaises(values) THEN values[Len(values)] ELSE TorchCat(values)

ConsolidateKey(values) ==
    IF CatRaises(values) THEN values[1] ELSE TorchCat(values)

\* The consolidation loop over the keys of state_dict.
ConsolidateDropFallback(sd) ==
    [k \in { j \in DOMAIN sd : ~CatRaises(sd[j]) } |-> ConsolidateKey(sd[k])]

Consolidate(sd) == [k \in DOMAIN sd |-> ConsolidateKey(sd[k])]

\* Lines 24-41: glob, the emptiness check, the world sizes, their check.
Discover ==
    /\ pc = "load"
    /\ \E shard_files \in Listings({ f \in fs : GlobMatches(f) }) :
          IF Len(shard_files) = 0
          THEN /\ pc' = "raised"
               /\ error' = "No checkpoint files found"
               /\ UNCHANGED world_size
          ELSE IF Cardinality(WorldSizes(shard_files)) # 1
          THEN /\ pc' = "raised"
               /\ error' = "Inconsistent world_size"
               /\ UNCHANGED world_size
          ELSE /\ pc' = "load_loop"
               /\ world_size' = CHOOSE w \in WorldSizes(shard_files) : TRUE
               /\ UNCHANGED error
    /\ UNCHANGED <<config, fs, rank, state_dict, loaded, consolidated,
                   actor_module, evalVars>>

\* filepath.exists()
ShardExistsAlways(filepath) == TRUE

ShardExists(filepath) == filepath \in fs

\* Lines 43-54: one iteration of the loop over the ranks.
LoadShard ==
    /\ pc = "load_loop"
    /\ rank < world_size
    /\ LET filepath == ShardPath(world_size, rank) IN
          IF ~ShardExists(filepath)
          THEN /\ pc' = "raised"
               /\ error' = "Missing shard file"
               /\ UNCHANGED <<rank, state_dict, loaded>>
          ELSE \E shard_dict \in ShardDicts(rank) :
                  /\ loaded' = Append(loaded, <<filepath, shard_dict>>)
                  /\ state_dict' = AppendShard(state_dict, shard_dict)
                  /\ rank' = rank + 1
                  /\ UNCHANGED <<pc, error>>
    /\ UNCHANGED <<config, fs, world_size, consolidated, actor_module,
                   evalVars>>

\* Lines 56-66: the consolidation loop and the return.
ConsolidateAll ==
    /\ pc = "load_loop"
    /\ rank = world_size
    /\ consolidated' = Consolidate(state_dict)
    /\ pc' = "returned"
    /\ UNCHANGED <<config, fs, world_size, rank, state_dict, loaded, error,
                   actor_module, evalVars>>

\* load_sharded_model called on a directory.
InitLoad ==
    /\ pc = "load"
    /\ config = NoConfig
    /\ fs \in LoadDirs
    /\ error = ""
    /\ actor_module = "pretrained"
    /\ InitLoadVars
    /\ InitEvalVars

NextLoad == Discover \/ LoadShard \/ ConsolidateAll

SpecLoad == InitLoad /\ [][NextLoad]_vars

\* --------------------------------------------------- padding and generation
\* The divisor main passes to pad_dataproto_to_divisor.
SizeDivisor == 1

\* The prompts a padding example may hold: one of a batch and one of none.
PadPrompts == {0, 1}

\* pad_dataproto_to_divisor(data, size_divisor): the batch followed by padding
\* examples that make its length a multiple of size_divisor, with their
\* number.  How many of the possible numbers it adds, and what the padding
\* examples hold, is not stated: every outcome is possible.
PadDataProtoToDivisor(data, size_divisor) ==
    UNION { { [padded |-> data \o padding, pad_size |-> k] :
                padding \in [1..k -> PadPrompts] } :
            k \in { j \in 0..MaxPad : (Len(data) + j) % size_divisor = 0 } }

\* unpad_dataproto(data, pad_size): the batch without its last pad_size examples.
UnpadDataProto(data, pad_size) == SubSeq(data, 1, Len(data) - pad_size)

\* The response the rollout generates for a prompt (do_sample is False).
ResponseOf(prompt) == prompt + 1000

\* hfrollout.generate_sequences(batch): one output per example, in order.
GenerateSequences(gen_batch) ==
    [i \in 1..Len(gen_batch) |->
        [prompts |-> gen_batch[i], responses |-> ResponseOf(gen_batch[i])]]

\* Lines 154-160: pad, generate, unpad; the outputs test_output_gen_batch may be.
PadGenerateUnpad(test_gen_batch, size_divisor) ==
    { UnpadDataProto(GenerateSequences(p.padded), p.pad_size) :
        p \in PadDataProtoToDivisor(test_gen_batch, size_divisor) }

\* -------------------------------------------------------------------- main
Labels == {"A", "B"}

Scores == {1, 2}

\* A row of the validation dataset: its prompt, its data source and the score
\* the reward function gives its completion.
Rows(n) ==
    { [i \in 1..n |-> [input_ids |-> i, data_source |-> l[i], score |-> s[i]]] :
        l \in [1..n -> Labels], s \in [1..n -> Scores] }

\* The validation datasets: with or without a data_source column.
Datasets ==
    UNION { { [has_source |-> TRUE, rows |-> r] : r \in Rows(n) }
            \cup { [has_source |-> FALSE,
                    rows |-> [i \in 1..n |-> [r[i] EXCEPT !.data_source = "A"]]] :
                      r \in Rows(n) } : n \in 0..MaxExamples }

\* collate_fn and DataProto.from_single_dict on the rows of one batch.
Collate(rows, has_source) ==
    [input_ids |-> [i \in 1..Len(rows) |-> rows[i].input_ids],
     non_tensor_batch |->
        IF has_source
        THEN [k \in {"data_source", "reward_model"} |->
                 IF k = "data_source"
                 THEN [i \in 1..Len(rows) |-> rows[i].data_source]
                 ELSE [i \in 1..Len(rows) |-> rows[i].score]]
        ELSE [k \in {"reward_model"} |-> [i \in 1..Len(rows) |-> rows[i].score]]]

\* len(DataLoader(dataset, batch_size, drop_last=drop_last))
NumBatches(n, batch_size, drop_last) ==
    IF drop_last THEN n \div batch_size ELSE (n + batch_size - 1) \div batch_size

Min(a, b) == IF a <= b THEN a ELSE b

\* The orders in which the sampler of the loader may yield the n rows: a
\* random permutation with shuffle, the dataset's order without.
SamplerOrders(n, shuffle) ==
    IF shuffle THEN Listings(1..n) ELSE { [i \in 1..n |-> i] }

\* The batches DataLoader yields, in order, when its sampler yields order.
DataLoader(dataset, batch_size, order, drop_last) ==
    LET sampled == [i \in 1..Len(order) |-> dataset.rows[order[i]]]
    IN  [j \in 1..NumBatches(Len(sampled), batch_size, drop_last) |->
            Collate(SubSeq(sampled, (j - 1) * batch_size + 1,
                           Min(j * batch_size, Len(sampled))),
                    dataset.has_source)]

\* tokenizer.decode(ids, skip_special_tokens=True)
Decode(ids) == [text |-> ids]

\* val_reward_fn(test_batch): one row per example, the score on the last token.
RewardFn(test_batch) ==
    [i \in 1..Len(test_batch.input_ids) |->
        <<0, test_batch.non_tensor_batch["reward_model"][i]>>]

RECURSIVE SumSeq(_)
SumSeq(xs) == IF Len(xs) = 0 THEN 0 ELSE xs[1] + SumSeq(Tail(xs))

\* reward_tensor.sum(-1)
SumLast(reward_tensor) == [i \in 1..Len(reward_tensor) |-> SumSeq(reward_tensor[i])]

\* test_batch.non_tensor_batch.get("data_source", ["unknown"] * n)
DataSourceOfOneDefault(test_batch, n) ==
    IF "data_source" \in DOMAIN test_batch.non_tensor_batch
    THEN test_batch.non_tensor_batch["data_source"]
    ELSE <<"unknown">>

DataSourceOf(test_batch, n) ==
    IF "data_source" \in DOMAIN test_batch.non_tensor_batch
    THEN test_batch.non_tensor_batch["data_source"]
    ELSE [i \in 1..n |-> "unknown"]

\* torch.cat / np.concatenate of a list along dimension 0.
RECURSIVE Concat(_)
Concat(lst) == IF Len(lst) = 0 THEN <<>> ELSE lst[1] \o Concat(Tail(lst))

\* Lines 183-188: the grouping loop, from example i on.
RECURSIVE GroupRewardsOverwrite(_, _, _, _)
GroupRewardsOverwrite(acc, reward_tensor, data_sources, i) ==
    IF i > Len(reward_tensor) THEN acc
    ELSE LET ds == data_sources[i]
             nxt == [k \in (DOMAIN acc) \cup {ds} |->
                        IF k = ds THEN <<reward_tensor[i]>> ELSE acc[k]]
         IN  GroupRewardsOverwrite(nxt, reward_tensor, data_sources, i + 1)

RECURSIVE GroupRewards(_, _, _, _)
GroupRewards(acc, reward_tensor, data_sources, i) ==
    IF i > Len(reward_tensor) THEN acc
    ELSE LET ds == data_sources[i]
             old == IF ds \in DOMAIN acc THEN acc[ds] ELSE <<>>
             nxt == [k \in (DOMAIN acc) \cup {ds} |->
                        IF k = ds THEN Append(old, reward_tensor[i]) ELSE acc[k]]
         IN  GroupRewards(nxt, reward_tensor, data_sources, i + 1)

RECURSIVE Gcd(_, _)
Gcd(a, b) == IF b = 0 THEN a ELSE Gcd(b, a % b)

\* np.mean(rewards), as a fraction in lowest terms.
Mean(rewards) ==
    LET g == Gcd(SumSeq(rewards), Len(rewards))
    IN  [num |-> SumSeq(rewards) \div g, den |-> Len(rewards) \div g]

\* f"val/test_score/{data_source}"
MetricKey(data_source) == <<"val/test_score/", data_source>>

\* Lines 190-192: one mean per group.
MetricDict(groups) ==
    [key \in { MetricKey(ds) : ds \in DOMAIN groups } |-> Mean(groups[key[2]])]

\* Lines 92-97: the model and tokenizer are loaded; the checkpoint is optional.
ResolveCheckpoint ==
    /\ pc = "main"
    /\ pc' = IF config.fsdp_checkpoint_path # "None" THEN "load" ELSE "data"
    /\ UNCHANGED <<config, fs, error, actor_module, loadVars, evalVars>>

\* Line 99: actor_module.load_state_dict(state_dict); the frame of
\* load_sharded_model is gone and main does not read state_dict again.
LoadStateDict ==
    /\ pc = "returned"
    /\ config.fsdp_checkpoint_path # "None"
    /\ world_size' = 0
    /\ rank' = 0
    /\ state_dict' = <<>>
    /\ loaded' = <<>>
    /\ consolidated' = <<>>
    /\ \/ /\ actor_module' = "checkpoint"
          /\ pc' = "data"
          /\ UNCHANGED error
       \/ /\ error' = "load_state_dict"
          /\ pc' = "raised"
          /\ UNCHANGED actor_module
    /\ UNCHANGED <<config, fs, evalVars>>

\* assert len(val_dataloader) >= 1
LoaderAssertSkipped(loader) == TRUE

LoaderAssert(loader) == Len(loader) >= 1

\* Lines 101-134: the dataset, the loader, its assertion, the empty lists.
BuildDataLoader ==
    /\ pc = "data"
    /\ \E dataset \in Datasets :
       \E order \in SamplerOrders(Len(dataset.rows), config.shuffle) :
          LET loader == DataLoader(dataset, config.batch_size, order,
                                   config.drop_last)
          IN  /\ val_dataloader' = loader
              /\ IF LoaderAssert(loader)
                 THEN pc' = "loop" /\ UNCHANGED error
                 ELSE pc' = "raised" /\ error' = "AssertionError"
    /\ UNCHANGED <<config, fs, actor_module, loadVars, idx, sample_inputs,
                   sample_outputs, sample_scores, reward_tensor_lst,
                   data_source_lst, data_source_reward, metric_dict, printed>>

\* Lines 136-178: one iteration of the loop over the loader.
EvalBatch ==
    /\ pc = "loop"
    /\ idx < Len(val_dataloader)
    /\ LET test_batch == val_dataloader[idx + 1]
           input_ids == test_batch.input_ids
           reward_tensor == RewardFn(test_batch)
       IN  \E gen \in PadGenerateUnpad(input_ids, SizeDivisor) :
           /\ sample_inputs' = sample_inputs
                   \o [i \in 1..Len(input_ids) |-> Decode(input_ids[i])]
           /\ sample_outputs' = sample_outputs
                   \o [i \in 1..Len(gen) |-> Decode(gen[i].responses)]
           /\ sample_scores' = sample_scores \o SumLast(reward_tensor)
           /\ reward_tensor_lst' = Append(reward_tensor_lst, reward_tensor)
           /\ data_source_lst' = Append(data_source_lst,
                   DataSourceOf(test_batch, Len(reward_tensor)))
    /\ idx' = idx + 1
    /\ UNCHANGED <<pc, config, fs, error, actor_module, loadVars, val_dataloader,
                   data_source_reward, metric_dict, printed>>

\* Lines 180-194: the aggregation and the report.
Aggregate ==
    /\ pc = "loop"
    /\ idx = Len(val_dataloader)
    /\ IF Len(reward_tensor_lst) = 0
       THEN /\ pc' = "raised"
            /\ error' = "RuntimeError"
            /\ UNCHANGED <<data_source_reward, metric_dict, printed>>
       ELSE LET reward_tensor == SumLast(Concat(reward_tensor_lst))
                data_sources == Concat(data_source_lst)
                groups == GroupRewards(<<>>, reward_tensor, data_sources, 1)
            IN  /\ data_source_reward' = groups
                /\ metric_dict' = MetricDict(groups)
                /\ printed' = TRUE
                /\ pc' = "done"
                /\ UNCHANGED error
    /\ UNCHANGED <<config, fs, actor_module, loadVars, val_dataloader, idx,
                   sample_inputs, sample_outputs, sample_scores,
                   reward_tensor_lst, data_source_lst>>

Configs ==
    [fsdp_checkpoint_path : {"None", "ckpt"}, batch_size : {1, 2},
     shuffle : BOOLEAN, drop_last : BOOLEAN]

Init ==
    /\ pc = "main"
    /\ config \in Configs
    /\ fs \in (IF config.fsdp_checkpoint_path = "None" THEN { {} }
               ELSE SUBSET MainNames)
    /\ error = ""
    /\ actor_module = "pretrained"
    /\ InitLoadVars
    /\ InitEvalVars

Next ==
    \/ ResolveCheckpoint
    \/ Discover
    \/ LoadShard
    \/ ConsolidateAll
    \/ LoadStateDict
    \/ BuildDataLoader
    \/ EvalBatch
    \/ Aggregate

Spec == Init /\ [][Next]_vars

\* ------------------------------------------- claims on load_sharded_model
\* The world sizes embedded in the names of the directory.
EmbeddedWorlds ==
    { ParseInt(MatchGroup1(f)) : f \in { g \in fs : PatternMatches(g) } }

TheWorld == CHOOSE w \in EmbeddedWorlds : TRUE

MissingRanks ==
    LET w == TheWorld
    IN  { r \in 0..(w - 1) : ShardPath(w, r) \notin fs }

\* The shard dict that was loaded from the file of a rank.
ShardOfRank(r) ==
    LET path == ShardPath(world_size, r)
        i == CHOOSE j \in 1..Len(loaded) : loaded[j][1] = path
    IN  loaded[i][2]

RanksHolding(k) == { r \in 0..(world_size - 1) : k \in DOMAIN ShardOfRank(r) }

\* The local values of a parameter, rank by rank, from rank r on.
RECURSIVE RankValues(_, _)
RankValues(k, r) ==
    IF r >= world_size THEN <<>>
    ELSE LET shard == ShardOfRank(r)
         IN  (IF k \in DOMAIN shard THEN <<ToLocal(shard[k])>> ELSE <<>>)
             \o RankValues(k, r + 1)

RECURSIVE RowsInRankOrder(_)
RowsInRankOrder(values) ==
    IF Len(values) = 0 THEN <<>>
    ELSE values[1].rows \o RowsInRankOrder(Tail(values))

RECURSIVE SumLeading(_)
SumLeading(values) ==
    IF Len(values) = 0 THEN 0
    ELSE Len(values[1].rows) + SumLeading(Tail(values))

\* Every value is a tensor of one or more dimensions and the shapes agree
\* outside dimension 0 (1-D empty tensors aside).
Concatenable(values) ==
    /\ Len(values) >= 1
    /\ \A i \in 1..Len(values) : values[i].kind = "Tensor"
    /\ \A i, j \in 1..Len(values) :
          \/ IsLegacyEmpty(values[i])
          \/ IsLegacyEmpty(values[j])
          \/ values[i].tail = values[j].tail

\* Every value is a tensor of one or more dimensions and two of them differ
\* in shape outside dimension 0.
ShapesIncompatible(values) ==
    /\ \A i \in 1..Len(values) : values[i].kind = "Tensor"
    /\ ~Concatenable(values)

AllKeys == UNION { DOMAIN loaded[i][2] : i \in 1..Len(loaded) }

\* C1: after a successful load, every parameter whose per-shard values can be
\* concatenated along dimension 0 is one tensor holding the rank-0 rows, then
\* the rank-1 rows, ... then the rank-(W-1) rows, whatever order the listing
\* had, and its leading dimension is the sum of the shards' leading dimensions.
C1_ConcatInRankOrder ==
    pc = "returned" =>
        \A k \in AllKeys :
            LET values == RankValues(k, 0) IN
            Concatenable(values) =>
                /\ k \in DOMAIN consolidated
                /\ consolidated[k].kind = "Tensor"
                /\ consolidated[k].rows = RowsInRankOrder(values)
                /\ Len(consolidated[k].rows) = SumLeading(values)

C1_Witness ==
    /\ pc = "returned"
    /\ world_size >= 2
    /\ "w" \in AllKeys
    /\ RanksHolding("w") = 0..(world_size - 1)
    /\ Concatenable(RankValues("w", 0))
    /\ Len(consolidated["w"].rows) > Len(RankValues("w", 0)[1].rows)
    /\ consolidated["w"].rows[1] # consolidated["w"].rows[Len(consolidated["w"].rows)]

\* C2: when the names of the directory embed one world size W and some rank
\* below W has no file model_world_size_<W>_rank_<r>.pt, the load never
\* returns a mapping: it is still on its way to the first missing rank or it
\* has raised the missing-shard error; a load that returned found every rank.
C2_MissingRankFails ==
    LET worlds == EmbeddedWorlds
        w == CHOOSE x \in worlds : TRUE
        missing == { r \in 0..(w - 1) : ShardPath(w, r) \notin fs }
    IN
    (Cardinality(worlds) = 1 /\ missing # {}) =>
        /\ pc # "returned"
        /\ consolidated = <<>>
        /\ \/ pc = "raised" /\ error = "Missing shard file"
           \/ /\ pc \in {"main", "load", "load_loop"}
              /\ error = ""
              /\ \A r \in missing : rank <= r

C2_Witness ==
    /\ pc = "raised"
    /\ error = "Missing shard file"
    /\ Len(loaded) >= 1
    /\ \E r \in (rank + 1)..MaxWorld : ShardPath(world_size, r) \in fs

\* C3: when no name of the directory matches the world-size/rank pattern, or
\* the names embed more than one world size, the load raises before any shard
\* is loaded and returns nothing.
C3_DiscoveryFails ==
    (Cardinality(EmbeddedWorlds) # 1) =>
        /\ loaded = <<>>
        /\ consolidated = <<>>
        /\ state_dict = <<>>
        /\ \/ pc \in {"main", "load"} /\ error = ""
           \/ /\ pc = "raised"
              /\ error \in {"No checkpoint files found", "Inconsistent world_size"}

C3_Witness ==
    /\ pc = "raised"
    /\ error = "Inconsistent world_size"
    /\ Cardinality(EmbeddedWorlds) = 2

\* C4, as stated: a parameter whose per-shard shapes are incompatible holds
\* exactly the rank-0 shard's value after the load.
C4_Original ==
    pc = "returned" =>
        \A k \in AllKeys :
            ShapesIncompatible(RankValues(k, 0)) =>
                /\ k \in DOMAIN ShardOfRank(0)
                /\ consolidated[k] = ToLocal(ShardOfRank(0)[k])

LowestRankHolding(k) ==
    CHOOSE r \in RanksHolding(k) : \A q \in RanksHolding(k) : r <= q

\* C4, amended: a parameter whose per-shard values cannot be concatenated
\* does not make the load raise; it holds the value of the lowest rank whose
\* shard has the parameter (rank 0 when rank 0 has it), and every other
\* parameter is still concatenated in rank order.
C4_FallbackToFirstHolder ==
    pc = "returned" =>
        /\ error = ""
        /\ \A k \in AllKeys :
              ~Concatenable(RankValues(k, 0)) =>
                  /\ k \in DOMAIN consolidated
                  /\ consolidated[k] = ToLocal(ShardOfRank(LowestRankHolding(k))[k])
                  /\ (0 \in RanksHolding(k) =>
                          consolidated[k] = ToLocal(ShardOfRank(0)[k]))
                  /\ \A j \in AllKeys \ {k} :
                        LET others == RankValues(j, 0) IN
                        Concatenable(others) =>
                            consolidated[j].rows = RowsInRankOrder(others)

C4_Witness ==
    /\ pc = "returned"
    /\ "w" \in AllKeys
    /\ ShapesIncompatible(RankValues("w", 0))
    /\ 0 \notin RanksHolding("w")
    /\ Len(consolidated["b"].rows) > Len(ShardOfRank(0)["b"].rows)

\* Every shard holds the same value of the parameter.
Replicated(k) ==
    /\ world_size >= 1
    /\ RanksHolding(k) = 0..(world_size - 1)
    /\ \A r \in 0..(world_size - 1) :
          ToLocal(ShardOfRank(r)[k]) = ToLocal(ShardOfRank(0)[k])

\* C5: a replicated parameter holds the rank-0 value after the load, with the
\* same leading dimension, not a concatenation of the copies.
C5_ReplicatedKeepsFirst ==
    pc = "returned" =>
        \A k \in AllKeys :
            Replicated(k) =>
                /\ consolidated[k] = ToLocal(ShardOfRank(0)[k])
                /\ Len(consolidated[k].rows) = Len(ShardOfRank(0)[k].rows)

\* C10: the load reads the files of ranks 0..W-1 of the one world size, each
\* once and in increasing rank order, and nothing else; the mapping it returns
\* has exactly the parameter names of those shards (none for W = 0).
C10_LoadsExactlyTheRanks ==
    /\ \A i \in 1..Len(loaded) :
          /\ loaded[i][1] = ShardPath(world_size, i - 1)
          /\ loaded[i][1] \in fs
    /\ pc = "returned" =>
          /\ Len(loaded) = world_size
          /\ error = ""
          /\ DOMAIN consolidated = AllKeys
          /\ (world_size = 0 => consolidated = <<>>)

C10_Witness ==
    /\ pc = "returned"
    /\ world_size = MaxWorld
    /\ ShardPath(world_size, world_size) \in fs
    /\ "w" \in AllKeys
    /\ "w" \notin DOMAIN ShardOfRank(1)

\* ------------------------------------------------------- claims on main
\* The examples of a batch: prompt, data-source label, score.
ExamplesOf(test_batch) ==
    [i \in 1..Len(test_batch.input_ids) |->
        [input_ids |-> test_batch.input_ids[i],
         label |-> IF "data_source" \in DOMAIN test_batch.non_tensor_batch
                   THEN test_batch.non_tensor_batch["data_source"][i]
                   ELSE "unknown",
         score |-> test_batch.non_tensor_batch["reward_model"][i]]]

\* The examples of the first k batches of the loader, in loader order.
RECURSIVE Processed(_)
Processed(k) ==
    IF k = 0 THEN <<>>
    ELSE Processed(k - 1) \o ExamplesOf(val_dataloader[k])

LabelsOf(examples) == { examples[i].label : i \in 1..Len(examples) }

WithLabel(examples, l) == SelectSeq(examples, LAMBDA e : e.label = l)

RECURSIVE SumScores(_)
SumScores(examples) ==
    IF Len(examples) = 0 THEN 0
    ELSE examples[1].score + SumScores(Tail(examples))

\* The report the aggregation gives when the scores of every example whose
\* label is not l are raised by 5.
ReportWithOthersChanged(examples, l) ==
    MetricDict(GroupRewards(<<>>,
        [i \in 1..Len(examples) |->
            IF examples[i].label = l THEN examples[i].score
            ELSE examples[i].score + 5],
        [i \in 1..Len(examples) |-> examples[i].label], 1))

\* C6: the report has one entry per data-source label of the evaluated
\* examples, its value is the mean of the scores of the examples of that
\* label, and changing the scores of the other labels leaves it as it is.
C6_MeanPerDataSource ==
    pc = "done" =>
        LET ex == Processed(Len(val_dataloader)) IN
        /\ DOMAIN metric_dict = { MetricKey(l) : l \in LabelsOf(ex) }
        /\ \A l \in LabelsOf(ex) :
              LET m == metric_dict[MetricKey(l)]
                  sel == WithLabel(ex, l)
              IN  /\ m.den >= 1
                  /\ m.num * Len(sel) = SumScores(sel) * m.den
                  /\ ReportWithOthersChanged(ex, l)[MetricKey(l)] = m

C6_Witness ==
    /\ pc = "done"
    /\ DOMAIN metric_dict = { MetricKey("A"), MetricKey("B") }
    /\ metric_dict[MetricKey("A")].den = 2
    /\ metric_dict[MetricKey("B")].den = 1
    /\ metric_dict[MetricKey("A")] # metric_dict[MetricKey("B")]
    /\ idx >= 2

GroupSizes(groups) ==
    LET RECURSIVE Total(_)
        Total(ks) == IF ks = {} THEN 0
                     ELSE LET k == CHOOSE x \in ks : TRUE
                          IN  Len(groups[k]) + Total(ks \ {k})
    IN  Total(DOMAIN groups)

\* C8: after every iteration the inputs, outputs, scores and labels gathered
\* so far are those of the examples of the batches taken so far, in loader
\* order and position by position ("unknown" for a batch without labels), and
\* the groups of the aggregation hold every example once, under its label.
C8_AccumulatorsAligned ==
    LET ex == Processed(idx)
        labels == Concat(data_source_lst)
    IN  /\ idx <= Len(val_dataloader)
        /\ Len(reward_tensor_lst) = idx
        /\ Len(data_source_lst) = idx
        /\ Len(sample_inputs) = Len(ex)
        /\ Len(sample_outputs) = Len(ex)
        /\ Len(sample_scores) = Len(ex)
        /\ Len(labels) = Len(ex)
        /\ \A i \in 1..Len(ex) :
              /\ sample_inputs[i] = Decode(ex[i].input_ids)
              /\ sample_outputs[i] = Decode(ResponseOf(ex[i].input_ids))
              /\ sample_scores[i] = ex[i].score
              /\ labels[i] = ex[i].label
        /\ pc = "done" =>
              /\ idx = Len(val_dataloader)
              /\ DOMAIN data_source_reward = LabelsOf(ex)
              /\ GroupSizes(data_source_reward) = Len(ex)
              /\ \A l \in LabelsOf(ex) :
                    Len(data_source_reward[l]) = Len(WithLabel(ex, l))

C8_Witness ==
    /\ pc = "done"
    /\ idx = 2
    /\ Len(sample_scores) = 3
    /\ Concat(data_source_lst) = <<"unknown", "unknown", "unknown">>
    /\ sample_scores[1] # sample_scores[3]

\* The checkpoint directory of the run has no shard, more than one world
\* size, or a rank of its world size missing.
CheckpointFatal ==
    /\ config.fsdp_checkpoint_path # "None"
    /\ \/ Cardinality(EmbeddedWorlds) # 1
       \/ MissingRanks # {}

\* C9: a run whose checkpoint directory is unusable never builds a loader,
\* takes a batch or prints the report; an exception ends the run for good,
\* before any batch and without a report; the loop runs on a non-empty loader
\* only; the report is printed only after every batch of the loader.
C9_FatalEndsRun ==
    /\ CheckpointFatal =>
          /\ pc \in {"main", "load", "load_loop", "raised"}
          /\ val_dataloader = <<>>
          /\ idx = 0
          /\ ~printed
    /\ (error # "") <=> (pc = "raised")
    /\ pc = "raised" =>
          /\ idx = 0
          /\ sample_outputs = <<>>
          /\ sample_scores = <<>>
          /\ metric_dict = <<>>
          /\ ~printed
          /\ ~ENABLED Next
    /\ pc \in {"loop", "done"} => Len(val_dataloader) >= 1
    /\ printed =>
          /\ pc = "done"
          /\ idx = Len(val_dataloader)
          /\ Len(sample_scores) = Len(Processed(Len(val_dataloader)))

C9_Witness ==
    /\ pc = "raised"
    /\ error = "Missing shard file"
    /\ Len(loaded) = 1
    /\ ~printed

====
